---- MODULE Spec2Model ----
(***************************************************************************)
(* Model of api.py: the "Bank sys" FastAPI application.                    *)
(*                                                                         *)
(* Each inbound HTTP request is a process r.  The framework dispatches it  *)
(* over the route table in registration order, validates its parameters    *)
(* against the handler's annotations and runs the handler.  The two data   *)
(* handlers (login_client, get_client_profile) are modelled statement by   *)
(* statement: connect_bd(), cur.execute(), cur.fetchone(), the except      *)
(* clauses and the finally clause.  The outcome of the handler (a returned *)
(* value, an HTTPException or any other exception) is then turned into the *)
(* HTTP response by the application's middleware stack.                    *)
(***************************************************************************)
EXTENDS Integers, Sequences, FiniteSets, TLC

\* Number of concurrent requests.
NReq == 2

Requests == 1..NReq

VARIABLES
    req,        \* req[r]: the inbound HTTP request (method, path, body, Origin)
    pc,         \* pc[r]: position of request r in the framework / handler
    handler,    \* handler[r]: name of the endpoint function the router chose
    conn,       \* conn[r]: the local variable conn of the handler
    cur,        \* cur[r]: the rows selected by cur.execute(), as a set
    pending,    \* pending[r]: how the handler ended (return / raise)
    resp,       \* resp[r]: the HTTP response handed to the client
    log,        \* log[r]: what the handler printed to the operational log
    raised,     \* raised[r]: the exception the driver raised for r, or None
    nConnect,   \* nConnect[r]: calls of connect_bd() made for r
    nExecute,   \* nExecute[r]: calls of cur.execute() made for r
    nFetch      \* nFetch[r]: calls of cur.fetchone() made for r

vars == <<req, pc, handler, conn, cur, pending, resp, log, raised,
          nConnect, nExecute, nFetch>>

-----------------------------------------------------------------------------
(* The external store: tables clients_auth and clients_profile.            *)

\* SQL NULL / Python None for the optional column middle_name.
NULL == "NULL"

ProfileColumns ==
    <<"profile_id", "client_id", "last_name", "first_name", "middle_name",
      "gender", "age", "marital_status", "account_number", "capital">>

\* Rows of clients_profile.  client_id is unique among them.
clients_profile ==
    { [profile_id |-> 1, client_id |-> 7, last_name |-> "Ivanov",
       first_name |-> "Ivan", middle_name |-> "Ivanovich", gender |-> "M",
       age |-> 40, marital_status |-> "married",
       account_number |-> "40817000000000000007", capital |-> 100050],
      [profile_id |-> 2, client_id |-> 8, last_name |-> "Petrova",
       first_name |-> "Anna", middle_name |-> NULL, gender |-> "F",
       age |-> 31, marital_status |-> "single",
       account_number |-> "40817000000000000008", capital |-> 2500] }

\* Rows of clients_auth.  The row of client 9 has no profile row.
clients_auth ==
    { [passport_series |-> "1234", passport_number |-> "567890",
       password |-> "secret", client_id |-> 7],
      [passport_series |-> "4321", passport_number |-> "098765",
       password |-> "qwerty", client_id |-> 8],
      [passport_series |-> "1111", passport_number |-> "222222",
       password |-> "orphan", client_id |-> 9] }

-----------------------------------------------------------------------------
(* Python values used by the handlers.                                     *)

None == [kind |-> "None"]

\* dict(row) of a RealDictCursor row: built from the selected columns in
\* order, a later column of the same name overwriting an earlier one.
RECURSIVE DictOf(_)
DictOf(cols) ==
    IF cols = <<>> THEN [f \in {} |-> NULL]
    ELSE LET d == DictOf(SubSeq(cols, 1, Len(cols) - 1))
             c == cols[Len(cols)]
         IN  [f \in DOMAIN d \cup {c.name} |->
                 IF f = c.name THEN c.value ELSE d[f]]

\* The columns of "p.*".
ProfileStar(p) ==
    [i \in 1..Len(ProfileColumns) |->
        [name |-> ProfileColumns[i], value |-> p[ProfileColumns[i]]]]

\* The result set of the login query (api.py, cur.execute in login_client):
\*   SELECT a.client_id, p.* FROM clients_auth a
\*   JOIN clients_profile p ON a.client_id = p.client_id
\*   WHERE a.passport_series = %s AND a.passport_number = %s
\*     AND a.password = %s
LoginWhere(a, login_data) ==
    /\ a.passport_series = login_data.passport_series
    /\ a.passport_number = login_data.passport_number
    /\ a.password = login_data.password

\* The login query without its ON clause.
LoginQuery_nojoin(login_data) ==
    { DictOf(<<[name |-> "client_id", value |-> ap[1].client_id]>>
             \o ProfileStar(ap[2])) :
        ap \in { x \in clients_auth \X clients_profile :
                    LoginWhere(x[1], login_data) } }

LoginQuery(login_data) ==
    { DictOf(<<[name |-> "client_id", value |-> ap[1].client_id]>>
             \o ProfileStar(ap[2])) :
        ap \in { x \in clients_auth \X clients_profile :
                    /\ x[1].client_id = x[2].client_id
                    /\ LoginWhere(x[1], login_data) } }

\* The profile query filtering on the wrong key column.
ProfileWhere_profile_id(p, client_id) == p.profile_id = client_id

\* The result set of the profile query (cur.execute in get_client_profile):
\*   SELECT * FROM clients_profile WHERE client_id = %s
ProfileWhere(p, client_id) == p.client_id = client_id

ProfileQuery(client_id) ==
    { DictOf(ProfileStar(p)) :
        p \in { x \in clients_profile : ProfileWhere(x, client_id) } }

-----------------------------------------------------------------------------
(* Exceptions and handler outcomes.                                        *)

HTTPException(status_code, detail) ==
    [kind |-> "HTTPException", status_code |-> status_code, detail |-> detail]

\* Any exception that is not an HTTPException (psycopg2 errors); text is
\* str(e).
Error(text) == [kind |-> "Exception", text |-> text]

Return(value) == [kind |-> "return", value |-> value]

\* Raised by the framework when a parameter does not fit its annotation.
RequestValidationError == [kind |-> "RequestValidationError"]

\* detail of the 401 of login_client
DETAIL_401 == "Nevernye pasportnye dannye ili parol"
\* detail of the 404 of get_client_profile
DETAIL_404 == "Klient ne najden"
\* detail of the 500 of both handlers
DETAIL_500 == "Oshibka servera"

\* str(e) of the failures the driver can raise
ConnectErrors == {"could not connect to server: Connection refused"}
QueryErrors == {"relation clients_profile does not exist"}

\* login_client with a single "except Exception" clause.
login_client_except_all(e) == HTTPException(500, DETAIL_500)

\* The except clauses of login_client: an HTTPException is re-raised as it
\* is, any other exception becomes the HTTPException 500.
login_client_except(e) ==
    IF e.kind = "HTTPException" THEN e
    ELSE HTTPException(500, DETAIL_500)

\* What the except clauses of login_client print.
login_client_except_log(e) ==
    IF e.kind = "HTTPException" THEN <<>>
    ELSE << <<"Oshibka bazy dannyh", e.text>> >>

\* The except clause of get_client_profile: "except Exception" catches every
\* exception raised in the try block, HTTPException included.
get_client_profile_except(e) == HTTPException(500, DETAIL_500)

-----------------------------------------------------------------------------
(* Routing and validation done by the framework.                           *)

\* The route table, in the order the decorators register the endpoints.
\* param: the path ends with a path parameter.
routes ==
    << [method |-> "GET",     path |-> "/",            param |-> FALSE,
        endpoint |-> "serve_index"],
       [method |-> "GET",     path |-> "/ticket.html", param |-> FALSE,
        endpoint |-> "serve_profile"],
       [method |-> "OPTIONS", path |-> "/api/login",   param |-> FALSE,
        endpoint |-> "options_login"],
       [method |-> "POST",    path |-> "/api/login",   param |-> FALSE,
        endpoint |-> "login_client"],
       [method |-> "GET",     path |-> "/api/client/", param |-> TRUE,
        endpoint |-> "get_client_profile"],
       [method |-> "GET",     path |-> "/",            param |-> FALSE,
        endpoint |-> "root"] >>

Matches(route, request) ==
    /\ route.method = request.method
    /\ route.path = request.path
    /\ route.param = (request.seg # <<>>)

\* A router in which a later registration replaces an earlier one.
Dispatch_last(request) ==
    LET hits == { i \in DOMAIN routes : Matches(routes[i], request) }
        last == CHOOSE i \in hits : \A j \in hits : i >= j
    IN  routes[last].endpoint

\* The router takes the first route that matches.
Dispatch(request) ==
    LET hits == { i \in DOMAIN routes : Matches(routes[i], request) }
        first == CHOOSE i \in hits : \A j \in hits : i <= j
    IN  routes[first].endpoint

Digits == {"0", "1", "2", "3", "4", "5", "6", "7", "8", "9"}

DigitValue(c) ==
    CASE c = "0" -> 0 [] c = "1" -> 1 [] c = "2" -> 2 [] c = "3" -> 3
      [] c = "4" -> 4 [] c = "5" -> 5 [] c = "6" -> 6 [] c = "7" -> 7
      [] c = "8" -> 8 [] c = "9" -> 9

\* A path parameter declared without the int annotation.
IsInt_lax(seg) == seg # <<>>

\* client_id: int -- the path segment, a string, parses as an integer.
IsInt(seg) ==
    LET digits == IF seg # <<>> /\ seg[1] = "-" THEN Tail(seg) ELSE seg
    IN  /\ digits # <<>>
        /\ \A i \in DOMAIN digits : digits[i] \in Digits

RECURSIVE NatOf(_)
NatOf(digits) ==
    IF digits = <<>> THEN 0
    ELSE 10 * NatOf(SubSeq(digits, 1, Len(digits) - 1))
         + DigitValue(digits[Len(digits)])

IntOf(seg) == IF seg[1] = "-" THEN 0 - NatOf(Tail(seg)) ELSE NatOf(seg)

\* class Login(BaseModel): the body is an object with the three fields.
LoginFields == {"passport_series", "passport_number", "password"}

ValidLogin(body) == body # None /\ LoginFields \subseteq DOMAIN body

\* Login(**body): the fields the model declares, others are ignored.
Login(body) == [f \in LoginFields |-> body[f]]

\* Whether the request's parameters fit the annotations of its endpoint.
Validates(endpoint, request) ==
    CASE endpoint = "login_client" -> ValidLogin(request.body)
      [] endpoint = "get_client_profile" -> IsInt(request.seg)
      [] OTHER -> TRUE

-----------------------------------------------------------------------------
(* Responses and the middleware stack.                                     *)

JSONResponse(status_code, content) ==
    [kind |-> "response", status_code |-> status_code, media |-> "json",
     content |-> content, cors |-> FALSE]

FileResponse(path) ==
    [kind |-> "response", status_code |-> 200, media |-> "file",
     content |-> [file |-> path], cors |-> FALSE]

PlainTextResponse(text, status_code) ==
    [kind |-> "response", status_code |-> status_code, media |-> "text",
     content |-> [text |-> text], cors |-> FALSE]

\* The innermost layer: the route serialises what the endpoint returned, and
\* the exception handlers turn an HTTPException or a validation error into
\* a JSON response.  Any other exception is raised further.
ExceptionMiddleware(outcome) ==
    CASE outcome.kind = "return" ->
            IF outcome.value.kind = "response" THEN outcome.value
            ELSE JSONResponse(200, outcome.value.dict)
      [] outcome.kind = "HTTPException" ->
            JSONResponse(outcome.status_code, [detail |-> outcome.detail])
      [] outcome.kind = "RequestValidationError" ->
            JSONResponse(422, [detail |-> "validation error"])
      [] OTHER -> outcome

\* my_api.add_middleware(CORSMiddleware, allow_origins=["*"], ...): a
\* response that passes through the middleware on a request with an Origin
\* header gets the Access-Control-Allow-* headers.  An exception passes
\* through untouched.
CORSMiddleware(request, outcome) ==
    IF outcome.kind = "response" /\ request.origin
    THEN [outcome EXCEPT !.cors = TRUE]
    ELSE outcome

\* The outermost layer of the application: an exception nobody handled
\* becomes the plain 500 response.
ServerErrorMiddleware(outcome) ==
    IF outcome.kind = "response" THEN outcome
    ELSE PlainTextResponse("Internal Server Error", 500)

\* my_api = FastAPI(...) with the middleware added: the whole stack.
my_api(request, outcome) ==
    ServerErrorMiddleware(CORSMiddleware(request, ExceptionMiddleware(outcome)))

\* A value an endpoint returns that is not a response object.
Dict(d) == [kind |-> "dict", dict |-> d]

-----------------------------------------------------------------------------
(* The requests clients send.                                              *)

Request(method, path, seg, body, origin) ==
    [method |-> method, path |-> path, seg |-> seg, body |-> body,
     origin |-> origin]

\* JSON bodies posted to /api/login.
Bodies ==
    { [passport_series |-> "1234", passport_number |-> "567890",
       password |-> "secret"],
      [passport_series |-> "1234", passport_number |-> "567890",
       password |-> "wrong"],
      [passport_series |-> "1111", passport_number |-> "222222",
       password |-> "orphan"],
      [passport_series |-> "4321", passport_number |-> "098765"] }

\* Last path segments of GET /api/client/{client_id}.
Segments == { <<"8">>, <<"9", "9", "9">>, <<"a", "b", "c">> }

Inbound ==
    UNION { { Request("GET", "/", <<>>, None, o),
              Request("GET", "/ticket.html", <<>>, None, o),
              Request("OPTIONS", "/api/login", <<>>, None, o) }
            \cup { Request("POST", "/api/login", <<>>, b, o) : b \in Bodies }
            \cup { Request("GET", "/api/client/", s, None, o) : s \in Segments }
          : o \in BOOLEAN }

-----------------------------------------------------------------------------
(* Initial state and the steps of a request.                               *)

Init ==
    /\ req = [r \in Requests |-> None]
    /\ pc = [r \in Requests |-> "new"]
    /\ handler = [r \in Requests |-> "none"]
    /\ conn = [r \in Requests |-> "None"]
    /\ cur = [r \in Requests |-> {}]
    /\ pending = [r \in Requests |-> None]
    /\ resp = [r \in Requests |-> None]
    /\ log = [r \in Requests |-> <<>>]
    /\ raised = [r \in Requests |-> None]
    /\ nConnect = [r \in Requests |-> 0]
    /\ nExecute = [r \in Requests |-> 0]
    /\ nFetch = [r \in Requests |-> 0]

\* A request arrives: the router picks the endpoint and the framework checks
\* the parameters against its annotations before calling it.
Receive(r) ==
    /\ pc[r] = "new"
    /\ \E request \in Inbound :
          LET endpoint == Dispatch(request) IN
          /\ req' = [req EXCEPT ![r] = request]
          /\ handler' = [handler EXCEPT ![r] = endpoint]
          /\ IF Validates(endpoint, request)
             THEN /\ pc' = [pc EXCEPT ![r] = "call"]
                  /\ UNCHANGED pending
             ELSE /\ pc' = [pc EXCEPT ![r] = "respond"]
                  /\ pending' = [pending EXCEPT ![r] = RequestValidationError]
    /\ UNCHANGED <<raised, conn, cur, resp, log, nConnect, nExecute, nFetch>>

\* serve_index, serve_profile, options_login and root: one return statement.
SimpleEndpoint(endpoint) ==
    CASE endpoint = "serve_index" ->
            Return(FileResponse("static/airlines.lk.html"))
      [] endpoint = "serve_profile" ->
            Return(FileResponse("static/ticket.html"))
      [] endpoint = "options_login" ->
            Return(Dict([message |-> "OK"]))
      [] endpoint = "root" ->
            Return(Dict([message |-> "Bank API rabotaet"]))

CallSimpleEndpoint(r) ==
    /\ pc[r] = "call"
    /\ handler[r] \notin {"login_client", "get_client_profile"}
    /\ pending' = [pending EXCEPT ![r] = SimpleEndpoint(handler[r])]
    /\ pc' = [pc EXCEPT ![r] = "respond"]
    /\ UNCHANGED <<raised, req, handler, conn, cur, resp, log,
                   nConnect, nExecute, nFetch>>

Append1(f, r, entries) == [f EXCEPT ![r] = f[r] \o entries]

Inc(f, r) == [f EXCEPT ![r] = f[r] + 1]

\* login_client: print, conn = None, try: conn = connect_bd().  A failure of
\* connect_bd() is raised inside the try block.
login_client_connect(r) ==
    /\ pc[r] = "call"
    /\ handler[r] = "login_client"
    /\ nConnect' = Inc(nConnect, r)
    /\ \/ /\ conn' = [conn EXCEPT ![r] = "open"]
          /\ log' = Append1(log, r, << <<"Polucheny dannye", Login(req[r].body)>> >>)
          /\ pc' = [pc EXCEPT ![r] = "execute"]
          /\ UNCHANGED <<pending, raised>>
       \/ \E text \in ConnectErrors :
          /\ raised' = [raised EXCEPT ![r] = Error(text)]
          /\ pending' = [pending EXCEPT ![r] = login_client_except(Error(text))]
          /\ log' = Append1(log, r,
                       << <<"Polucheny dannye", Login(req[r].body)>> >>
                       \o login_client_except_log(Error(text)))
          /\ pc' = [pc EXCEPT ![r] = "finally"]
          /\ UNCHANGED conn
    /\ UNCHANGED <<req, handler, cur, resp, nExecute, nFetch>>

\* login_client running the statement again after a failure.
login_client_execute_retry(r) ==
    /\ pc[r] = "execute"
    /\ handler[r] = "login_client"
    /\ nExecute[r] < 3
    /\ nExecute' = Inc(nExecute, r)
    /\ \/ /\ cur' = [cur EXCEPT ![r] = LoginQuery(Login(req[r].body))]
          /\ pc' = [pc EXCEPT ![r] = "fetch"]
          /\ UNCHANGED <<pending, log, raised>>
       \/ \E text \in QueryErrors :
          /\ raised' = [raised EXCEPT ![r] = Error(text)]
          /\ log' = Append1(log, r, login_client_except_log(Error(text)))
          /\ UNCHANGED <<pc, pending, cur>>
    /\ UNCHANGED <<req, handler, conn, resp, nConnect, nFetch>>

\* with conn.cursor() as cur: cur.execute(<login query>, (...))
login_client_execute(r) ==
    /\ pc[r] = "execute"
    /\ handler[r] = "login_client"
    /\ nExecute' = Inc(nExecute, r)
    /\ \/ /\ cur' = [cur EXCEPT ![r] = LoginQuery(Login(req[r].body))]
          /\ pc' = [pc EXCEPT ![r] = "fetch"]
          /\ UNCHANGED <<pending, log, raised>>
       \/ \E text \in QueryErrors :
          /\ raised' = [raised EXCEPT ![r] = Error(text)]
          /\ pending' = [pending EXCEPT ![r] = login_client_except(Error(text))]
          /\ log' = Append1(log, r, login_client_except_log(Error(text)))
          /\ pc' = [pc EXCEPT ![r] = "finally"]
          /\ UNCHANGED cur
    /\ UNCHANGED <<req, handler, conn, resp, nConnect, nFetch>>

\* client = cur.fetchone(); if not client: raise HTTPException(401, ...);
\* return dict(client)
login_client_fetchone(r) ==
    /\ pc[r] = "fetch"
    /\ handler[r] = "login_client"
    /\ nFetch' = Inc(nFetch, r)
    /\ IF cur[r] = {}
       THEN /\ pending' = [pending EXCEPT ![r] =
                              login_client_except(HTTPException(401, DETAIL_401))]
            /\ log' = Append1(log, r, << <<"Klient ne najden v baze">> >>)
       ELSE \E client \in cur[r] :
            /\ pending' = [pending EXCEPT ![r] = Return(Dict(client))]
            /\ log' = Append1(log, r, << <<"Najden klient", client>> >>)
    /\ pc' = [pc EXCEPT ![r] = "finally"]
    /\ UNCHANGED <<raised, req, handler, conn, cur, resp, nConnect, nExecute>>

\* finally: if conn: conn.close()
login_client_finally(r) ==
    /\ pc[r] = "finally"
    /\ handler[r] = "login_client"
    /\ conn' = [conn EXCEPT ![r] = IF conn[r] # "None" THEN "closed" ELSE conn[r]]
    /\ pc' = [pc EXCEPT ![r] = "respond"]
    /\ UNCHANGED <<raised, req, handler, cur, pending, resp, log,
                   nConnect, nExecute, nFetch>>

\* get_client_profile: conn = connect_bd(), before the try block: a failure
\* leaves the endpoint as it is, no except or finally clause applies.
get_client_profile_connect(r) ==
    /\ pc[r] = "call"
    /\ handler[r] = "get_client_profile"
    /\ nConnect' = Inc(nConnect, r)
    /\ \/ /\ conn' = [conn EXCEPT ![r] = "open"]
          /\ pc' = [pc EXCEPT ![r] = "execute"]
          /\ UNCHANGED <<pending, raised>>
       \/ \E text \in ConnectErrors :
          /\ raised' = [raised EXCEPT ![r] = Error(text)]
          /\ pending' = [pending EXCEPT ![r] = Error(text)]
          /\ pc' = [pc EXCEPT ![r] = "respond"]
          /\ UNCHANGED conn
    /\ UNCHANGED <<req, handler, cur, resp, log, nExecute, nFetch>>

\* with conn.cursor() as cur: cur.execute(<profile query>, (client_id,))
get_client_profile_execute(r) ==
    /\ pc[r] = "execute"
    /\ handler[r] = "get_client_profile"
    /\ nExecute' = Inc(nExecute, r)
    /\ \/ /\ cur' = [cur EXCEPT ![r] = ProfileQuery(IntOf(req[r].seg))]
          /\ pc' = [pc EXCEPT ![r] = "fetch"]
          /\ UNCHANGED <<pending, raised>>
       \/ \E text \in QueryErrors :
          /\ raised' = [raised EXCEPT ![r] = Error(text)]
          /\ pending' = [pending EXCEPT ![r] =
                            get_client_profile_except(Error(text))]
          /\ pc' = [pc EXCEPT ![r] = "finally"]
          /\ UNCHANGED cur
    /\ UNCHANGED <<req, handler, conn, resp, log, nConnect, nFetch>>

\* profile = cur.fetchone(); if not profile: raise HTTPException(404, ...);
\* return dict(profile).  The raise is inside the try block.
get_client_profile_fetchone(r) ==
    /\ pc[r] = "fetch"
    /\ handler[r] = "get_client_profile"
    /\ nFetch' = Inc(nFetch, r)
    /\ IF cur[r] = {}
       THEN pending' = [pending EXCEPT ![r] =
                get_client_profile_except(HTTPException(404, DETAIL_404))]
       ELSE \E profile \in cur[r] :
                pending' = [pending EXCEPT ![r] = Return(Dict(profile))]
    /\ pc' = [pc EXCEPT ![r] = "finally"]
    /\ UNCHANGED <<raised, req, handler, conn, cur, resp, log, nConnect, nExecute>>

\* get_client_profile without its finally clause.
get_client_profile_finally_noclose(r) ==
    /\ pc[r] = "finally"
    /\ handler[r] = "get_client_profile"
    /\ pc' = [pc EXCEPT ![r] = "respond"]
    /\ UNCHANGED <<raised, req, handler, conn, cur, pending, resp, log,
                   nConnect, nExecute, nFetch>>

\* finally: conn.close()
get_client_profile_finally(r) ==
    /\ pc[r] = "finally"
    /\ handler[r] = "get_client_profile"
    /\ conn' = [conn EXCEPT ![r] = "closed"]
    /\ pc' = [pc EXCEPT ![r] = "respond"]
    /\ UNCHANGED <<raised, req, handler, cur, pending, resp, log,
                   nConnect, nExecute, nFetch>>

\* The endpoint has ended: the middleware stack builds the response and it is
\* handed to the client.
SendResponse(r) ==
    /\ pc[r] = "respond"
    /\ resp' = [resp EXCEPT ![r] = my_api(req[r], pending[r])]
    /\ pc' = [pc EXCEPT ![r] = "done"]
    /\ UNCHANGED <<raised, req, handler, conn, cur, pending, log,
                   nConnect, nExecute, nFetch>>

Next ==
    \E r \in Requests :
        \/ Receive(r)
        \/ CallSimpleEndpoint(r)
        \/ login_client_connect(r)
        \/ login_client_execute(r)
        \/ login_client_fetchone(r)
        \/ login_client_finally(r)
        \/ get_client_profile_connect(r)
        \/ get_client_profile_execute(r)
        \/ get_client_profile_fetchone(r)
        \/ get_client_profile_finally(r)
        \/ SendResponse(r)

Spec == Init /\ [][Next]_vars

-----------------------------------------------------------------------------
(* Vocabulary of the properties.                                           *)

Done(r) == pc[r] = "done"

IsLogin(r) ==
    pc[r] # "new" /\ req[r].method = "POST" /\ req[r].path = "/api/login"

IsGetClient(r) ==
    pc[r] # "new" /\ req[r].method = "GET" /\ req[r].path = "/api/client/"

\* The login body has the three required fields.
WellFormed(r) ==
    /\ "passport_series" \in DOMAIN req[r].body
    /\ "passport_number" \in DOMAIN req[r].body
    /\ "password" \in DOMAIN req[r].body

\* The path segment is not the decimal notation of an integer.
NotAnInteger(r) ==
    \E i \in DOMAIN req[r].seg : req[r].seg[i] \notin Digits

\* Row a of the authentication table carries the credentials of r and row p
\* of the profile table belongs to the same client.
Joined(r, a, p) ==
    /\ a.passport_series = req[r].body.passport_series
    /\ a.passport_number = req[r].body.passport_number
    /\ a.password = req[r].body.password
    /\ a.client_id = p.client_id

\* The database accepted the connection of r.
Reachable(r) == nConnect[r] = 1 /\ conn[r] # "None"

\* The database accepted the connection of r and answered its query.
Served(r) == Reachable(r) /\ nExecute[r] = 1 /\ raised[r] = None

ProfileFields == { ProfileColumns[i] : i \in DOMAIN ProfileColumns }

OpenConnections == { r \in Requests : conn[r] = "open" }

-----------------------------------------------------------------------------
(* Properties.                                                             *)

\* C1: a GET /api/client/{client_id} for an integer client_id that has no
\* row in the profile table, answered by the database without failure, ends
\* with status 404.
C1_MissingProfileIs404 ==
    \A r \in Requests :
        ( /\ Done(r) /\ IsGetClient(r) /\ ~NotAnInteger(r) /\ Served(r)
          /\ ~\E p \in clients_profile : p.client_id = IntOf(req[r].seg) )
        => resp[r].status_code = 404

\* C2 as stated: a well-formed login whose credentials match no row of the
\* join, with the database reachable, ends with status 401 and a response
\* without any profile field.
C2_NoMatchIs401_Reachable ==
    \A r \in Requests :
        ( /\ Done(r) /\ IsLogin(r) /\ WellFormed(r) /\ Reachable(r)
          /\ ~\E a \in clients_auth, p \in clients_profile : Joined(r, a, p) )
        => /\ resp[r].status_code = 401
           /\ DOMAIN resp[r].content \cap ProfileFields = {}

\* C2 amended: a well-formed login whose credentials match no row of the
\* join, with the database reachable and the query succeeding, ends with
\* status 401 and a response without any profile field.
C2_NoMatchIs401 ==
    \A r \in Requests :
        ( /\ Done(r) /\ IsLogin(r) /\ WellFormed(r) /\ Served(r)
          /\ ~\E a \in clients_auth, p \in clients_profile : Joined(r, a, p) )
        => /\ resp[r].status_code = 401
           /\ DOMAIN resp[r].content \cap ProfileFields = {}

C2_Witness ==
    \E r \in Requests :
        /\ Done(r) /\ IsLogin(r) /\ WellFormed(r) /\ Served(r)
        /\ ~\E a \in clients_auth, p \in clients_profile : Joined(r, a, p)
        /\ resp[r].status_code = 401
        /\ resp[r].content = [detail |-> DETAIL_401]

\* The response of r is 200 with exactly the fields of profile row p.
ReturnsProfile(r, p) ==
    /\ resp[r].status_code = 200
    /\ resp[r].media = "json"
    /\ resp[r].content = p

\* C3 as stated: a login with the credentials of an authentication row whose
\* client has a profile row ends with status 200 and the fields of exactly
\* that client's profile row, client_id being the authentication row's.
C3_MatchIs200_Always ==
    \A r \in Requests :
        ( /\ Done(r) /\ IsLogin(r) /\ WellFormed(r)
          /\ \E a \in clients_auth, p \in clients_profile : Joined(r, a, p) )
        => \E a \in clients_auth, p \in clients_profile :
              /\ Joined(r, a, p)
              /\ ReturnsProfile(r, p)
              /\ resp[r].content.client_id = a.client_id

\* C3 amended: the same, provided the database is reachable and the query
\* succeeds.
C3_MatchIs200 ==
    \A r \in Requests :
        ( /\ Done(r) /\ IsLogin(r) /\ WellFormed(r) /\ Served(r)
          /\ \E a \in clients_auth, p \in clients_profile : Joined(r, a, p) )
        => \E a \in clients_auth, p \in clients_profile :
              /\ Joined(r, a, p)
              /\ ReturnsProfile(r, p)
              /\ resp[r].content.client_id = a.client_id

C3_Witness ==
    \E r \in Requests :
        /\ Done(r) /\ IsLogin(r) /\ WellFormed(r) /\ Served(r)
        /\ resp[r].status_code = 200
        /\ resp[r].content.client_id = 7
        /\ resp[r].content.last_name = "Ivanov"
        /\ resp[r].content.capital = 100050

\* C4 as stated: a GET /api/client/{client_id} for a client_id that has a
\* profile row, with the database reachable, ends with status 200 and
\* exactly the fields of the profile row with that client_id.
C4_ExistingIs200_Reachable ==
    \A r \in Requests :
        ( /\ Done(r) /\ IsGetClient(r) /\ ~NotAnInteger(r) /\ Reachable(r)
          /\ \E p \in clients_profile : p.client_id = IntOf(req[r].seg) )
        => \E p \in clients_profile :
              p.client_id = IntOf(req[r].seg) /\ ReturnsProfile(r, p)

\* C4 amended: the same, provided the database is reachable and the query
\* succeeds.
C4_ExistingIs200 ==
    \A r \in Requests :
        ( /\ Done(r) /\ IsGetClient(r) /\ ~NotAnInteger(r) /\ Served(r)
          /\ \E p \in clients_profile : p.client_id = IntOf(req[r].seg) )
        => \E p \in clients_profile :
              p.client_id = IntOf(req[r].seg) /\ ReturnsProfile(r, p)

C4_Witness ==
    \E r \in Requests :
        /\ Done(r) /\ IsGetClient(r) /\ Served(r)
        /\ req[r].seg = <<"8">>
        /\ resp[r].status_code = 200
        /\ resp[r].content.client_id = 8
        /\ resp[r].content.last_name = "Petrova"

\* C5: on both data endpoints a failure of the connection or of the query
\* ends the request with status 500 carrying the generic detail message, and
\* the text of the original error is not in the response.
C5_FailureIsGeneric500 ==
    \A r \in Requests :
        ( /\ Done(r) /\ (IsLogin(r) \/ IsGetClient(r))
          /\ raised[r] # None )
        => /\ resp[r].status_code = 500
           /\ resp[r].content = [detail |-> DETAIL_500]
           /\ \A f \in DOMAIN resp[r].content :
                 resp[r].content[f] # raised[r].text

\* C6: a request that has finished holds no open connection, on whichever
\* path it ended; once all requests have finished no connection is open.
C6_ConnectionsClosed ==
    /\ \A r \in Requests : Done(r) => conn[r] # "open"
    /\ (\A r \in Requests : Done(r)) => Cardinality(OpenConnections) = 0

C6_Witness ==
    /\ \A r \in Requests : Done(r) /\ conn[r] = "closed"
    /\ \E r \in Requests : IsLogin(r) /\ raised[r] # None
    /\ \E r \in Requests : IsGetClient(r) /\ resp[r].status_code = 200

\* C7: a request that fails validation (a login body without one of the
\* three fields, a client_id segment that is not an integer) ends with a
\* 4xx status and never opens a connection or executes a query.
C7_InvalidNeverReachesDatabase ==
    \A r \in Requests :
        ( \/ IsLogin(r) /\ ~WellFormed(r)
          \/ IsGetClient(r) /\ NotAnInteger(r) )
        => /\ nConnect[r] = 0
           /\ nExecute[r] = 0
           /\ conn[r] = "None"
           /\ Done(r) => resp[r].status_code \in 400..499

C7_Witness ==
    /\ \E r \in Requests :
          Done(r) /\ IsLogin(r) /\ ~WellFormed(r) /\ resp[r].status_code = 422
    /\ \E r \in Requests :
          Done(r) /\ IsGetClient(r) /\ NotAnInteger(r)
          /\ resp[r].status_code = 422

\* C8: every response to a cross-origin request on /api/login and
\* /api/client/* carries the cross-origin headers, whatever the outcome.
C8_CorsOnEveryResponse ==
    \A r \in Requests :
        ( /\ Done(r) /\ req[r].origin
          /\ req[r].path \in {"/api/login", "/api/client/"} )
        => resp[r].cors

\* C9: every GET / is dispatched to serve_index and answered with the index
\* HTML file; the JSON body of root is never returned.
C9_IndexServedAtRoot ==
    \A r \in Requests :
        (pc[r] # "new" /\ req[r].method = "GET" /\ req[r].path = "/")
        => /\ handler[r] = "serve_index"
           /\ Done(r) =>
                 /\ resp[r].status_code = 200
                 /\ resp[r].media = "file"
                 /\ resp[r].content = [file |-> "static/airlines.lk.html"]
                 /\ resp[r].content # [message |-> "Bank API rabotaet"]

C9_Witness ==
    \E r \in Requests :
        /\ Done(r) /\ req[r].method = "GET" /\ req[r].path = "/"
        /\ resp[r].media = "file"

\* C10: a request to a data endpoint opens at most one connection, executes
\* at most one statement and fetches at most one row, in that order, makes
\* no further call after a failure, and its connection is closed before the
\* response is handed to the client.
C10_OneShotOrdered ==
    \A r \in Requests :
        /\ nConnect[r] <= 1 /\ nExecute[r] <= 1 /\ nFetch[r] <= 1
        /\ nFetch[r] <= nExecute[r] /\ nExecute[r] <= nConnect[r]
        /\ raised[r] # None => nFetch[r] = 0 /\ pc[r] \notin {"execute", "fetch"}
        /\ pc[r] \in {"respond", "done"} => conn[r] # "open"
        /\ resp[r] # None => conn[r] # "open"

C10_Witness ==
    /\ \E r \in Requests :
          /\ Done(r) /\ IsLogin(r) /\ conn[r] = "closed"
          /\ nConnect[r] = 1 /\ nExecute[r] = 1 /\ nFetch[r] = 1
    /\ \E r \in Requests :
          /\ Done(r) /\ IsGetClient(r) /\ conn[r] = "closed"
          /\ raised[r] # None /\ nExecute[r] = 1 /\ nFetch[r] = 0

====
